---- MODULE Spec2Model ----
(***************************************************************************)
(* Model of the access-point radio controller of frc-radio-api.            *)
(*                                                                         *)
(* The repository holds two builds of package radio:                       *)
(*   - src/unnamed/part_000  (variant "base"): Run, the request handler,   *)
(*     configure, configureStations, the status refresh and the telemetry  *)
(*     poll;                                                               *)
(*   - src/radio/radio_ap.go (variant "ap"): setInitialState, configure,   *)
(*     configureStations, updateStationStatuses, stationSsidsAreCorrect    *)
(*     and updateMonitoring; its run loop and request handler are the ones *)
(*     of part_000, the only ones the repository holds.                    *)
(* The variable `variant` is fixed by Init and says which build runs.      *)
(*                                                                         *)
(* The controller goroutine is one process whose position is `pc`.         *)
(* Producers (Enqueue) and the device are the environment.                 *)
(***************************************************************************)
EXTENDS Integers, Sequences, FiniteSets, TLC

VARIABLES
  variant,                      \* "ap" | "base": which build of package radio
  Type,                         \* radio.Type: "linksys" | "vivid"
  Channel, ChannelBandwidth, RedVlans, BlueVlans, SyslogIpAddress,
  Status,                       \* radio.Status
  StationStatuses,              \* station name -> Nil | <<status record>>
  ConfigurationRequestChannel,  \* the buffered channel, oldest first
  uci,                          \* uciTree: the in-memory tree, staged values included
  disk,                         \* the committed configuration the device reloads from
  dev,                          \* SSID the device reports per interface position
  pc,                           \* position of the controller goroutine
  request,                      \* handleConfigurationRequest's local `request`
  numExtraRequests, i,          \* locals of the drain loop
  stationConfigurations,        \* argument of the running configureStations
  pass,                         \* "clear": the Linksys pre-pass, "main": the request's
  retryCount,                   \* configureStations' local
  todo,                         \* stations a running loop over the six has yet to visit
  caller,                       \* who called updateStationStatuses: "Run" | "configureStations"
  \* history variables (not program state)
  nextId,                       \* enqueue order: id of the next request to enqueue
  taken,                        \* [id, k]: request received by Run's select, queue length then
  step,                         \* number of handling steps started
  removedAt,                    \* request id -> handling step that removed it from the queue (0: none)
  discarded,                    \* ids overwritten by the drain loop
  applied,                      \* ids passed to configure, in call order
  lastResult,                   \* what the most recently returned configure returned: "ok",
                                \* or the error: "validation", "syslog", "commit", "reload",
                                \* "refresh", "convergence" ("none": no configure has returned)
  inFlight,                     \* executions of configure entered and not yet returned
  polling,                      \* executions of the telemetry poll entered and not yet returned
  polls,                        \* timer fires so far
  refreshPre,                   \* StationStatuses when the running status refresh began
  faults,                       \* commands and commits that have failed so far
  probe,                        \* outcomes of the two commands of the latest station poll
                                \* (forgotten when the next request is received)
  vlanCall,                     \* a call of getStationVlan: its station and its result
  stageCall                     \* a run of configureStations' staging loop: its argument

vars == <<variant, Type, Channel, ChannelBandwidth, RedVlans, BlueVlans,
          SyslogIpAddress, Status, StationStatuses, ConfigurationRequestChannel,
          uci, disk, dev, pc, request, numExtraRequests, i,
          stationConfigurations, pass, retryCount, todo, caller,
          nextId, taken, step, removedAt, discarded, applied, lastResult,
          inFlight, polling, polls, refreshPre, faults, probe, vlanCall, stageCall>>

-----------------------------------------------------------------------------
(* Program constants *)

maxRetryCount == 3
configurationRequestBufferSize == 10
stationCount == 6
monitoringErrorCode == -999

(* Bounds of the model *)

\* Requests the producers enqueue in one run.
MaxRequests == 3
\* part_000's retryCount is unbounded (it is only logged): it saturates here.
MaxCycles == 4
\* Timer fires (telemetry polls) in one run.
MaxPolls == 1
\* Failures of a device command or of a store commit in one run (the readiness
\* probe and the telemetry commands fail freely).
MaxFaults == 1

-----------------------------------------------------------------------------
(* Values *)

\* A nil pointer, and a pointer to r.
Nil == <<>>
Ptr(r) == <<r>>

statusBooting == "BOOTING"
statusConfiguring == "CONFIGURING"
statusActive == "ACTIVE"
statusError == "ERROR"

Vlans102030 == "10_20_30"
Vlans405060 == "40_50_60"
Vlans708090 == "70_80_90"

Stations == 0 .. (stationCount - 1)
red1 == 0
red2 == 1
red3 == 2
blue1 == 3
blue2 == 4
blue3 == 5

_station_name == <<"red1", "red2", "red3", "blue1", "blue2", "blue3">>

\* station.String
String(s) ==
  IF s < 0 \/ s >= Len(_station_name) THEN "station(?)" ELSE _station_name[s + 1]

StationNameSet == {String(s) : s \in Stations}

\* An SSID or a key is <<prefix, rest>>: strings.HasPrefix(ssid, "no-team-") reads
\* the prefix.
NoTeamSsid(position) == <<"no-team-", position>>
TeamSsid(team) == <<"", team>>
TeamKey(team) == <<"key", team>>
HasNoTeamPrefix(ssid) == ssid[1] = "no-team-"

\* sha256 of the key (the random salt is not modelled: no claim reads it).
Hash(key) == <<"sha256", key>>

Team1 == [Ssid |-> TeamSsid("1111"), WpaKey |-> TeamKey("1111")]
Team2 == [Ssid |-> TeamSsid("2222"), WpaKey |-> TeamKey("2222")]

NoStations == <<>>

\* The requests producers send (ConfigurationRequest without its enqueue id).
ReqTeams ==
  [Channel |-> 36, ChannelBandwidth |-> "40MHz", RedVlans |-> Vlans708090,
   BlueVlans |-> Vlans102030, SyslogIpAddress |-> "10.0.100.40",
   StationConfigurations |-> ("red1" :> Ptr(Team1) @@ "blue3" :> Ptr(Team2))]
ReqClear ==
  [Channel |-> 0, ChannelBandwidth |-> "", RedVlans |-> "", BlueVlans |-> "",
   SyslogIpAddress |-> "", StationConfigurations |-> NoStations]
ReqBadBandwidth ==
  [Channel |-> 44, ChannelBandwidth |-> "80MHz", RedVlans |-> Vlans405060,
   BlueVlans |-> Vlans708090, SyslogIpAddress |-> "10.0.100.41",
   StationConfigurations |-> ("red2" :> Ptr(Team2))]
\* red1 carries the unassign marker: a nil *StationConfiguration (JSON null).
ReqUnassign ==
  [Channel |-> 0, ChannelBandwidth |-> "", RedVlans |-> "", BlueVlans |-> "",
   SyslogIpAddress |-> "", StationConfigurations |-> ("red1" :> Nil)]

\* part_000's ConfigurationRequest holds a channel and station configurations only.
\* Its station configurations are values, not pointers.
BaseRequest(r) ==
  [r EXCEPT !.ChannelBandwidth = "", !.RedVlans = "", !.BlueVlans = "",
            !.SyslogIpAddress = "",
            !.StationConfigurations =
               [n \in DOMAIN r.StationConfigurations |-> r.StationConfigurations[n][1]]]

RequestKinds(v) ==
  IF v = "ap" THEN {ReqTeams, ReqClear, ReqBadBandwidth, ReqUnassign}
  ELSE {BaseRequest(ReqTeams), BaseRequest(ReqClear)}

WithId(r, id) ==
  [id |-> id, Channel |-> r.Channel, ChannelBandwidth |-> r.ChannelBandwidth,
   RedVlans |-> r.RedVlans, BlueVlans |-> r.BlueVlans,
   SyslogIpAddress |-> r.SyslogIpAddress,
   StationConfigurations |-> r.StationConfigurations]

NoRequest == WithId(ReqClear, 0)

\* The baseline configuration store: every interface unassigned.
BaselineIface(position) ==
  [ssid |-> NoTeamSsid(position), key |-> NoTeamSsid(position), network |-> 0]
BaselineStore ==
  [channel |-> 149, htmode |-> "HT20", log_ip |-> "",
   iface |-> [p \in 1 .. stationCount |-> BaselineIface(p)]]

\* What the device broadcasts once it has loaded the committed configuration.
DeviceOf(store) == [p \in 1 .. stationCount |-> store.iface[p].ssid]

Min(S) == CHOOSE x \in S : \A y \in S : x <= y
Range(f) == {f[x] : x \in DOMAIN f}

-----------------------------------------------------------------------------
(* Pure functions of the program *)

\* getStationVlan that takes the station's number as the position, forgetting to
\* subtract the alliance's first station.
getStationVlan_absolute(station, redVlans, blueVlans) ==
  LET isRed == station \in {red1, red2, red3}
      isBlue == station \in {blue1, blue2, blue3}
      vlans == IF isRed THEN redVlans ELSE IF isBlue THEN blueVlans ELSE ""
      position == station + 1
  IN  CASE vlans = Vlans102030 -> 10 * position
        [] vlans = Vlans405060 -> 10 * (position + 3)
        [] vlans = Vlans708090 -> 10 * (position + 6)
        [] OTHER -> -1

\* getStationVlan (radio_ap.go)
getStationVlan(station, redVlans, blueVlans) ==
  LET isRed == station \in {red1, red2, red3}
      isBlue == station \in {blue1, blue2, blue3}
      vlans == IF isRed THEN redVlans ELSE IF isBlue THEN blueVlans ELSE ""
      position == IF isRed THEN station - red1 + 1
                  ELSE IF isBlue THEN station - blue1 + 1 ELSE 0
  IN  CASE vlans = Vlans102030 -> 10 * position
        [] vlans = Vlans405060 -> 10 * (position + 3)
        [] vlans = Vlans708090 -> 10 * (position + 6)
        [] OTHER -> -1

\* A fresh status as updateStationStatuses builds it.
NewStatus(ssid, tree, position) ==
  [Ssid |-> ssid, HashedWpaKey |-> Hash(tree.iface[position].key),
   BandwidthUsedMbps |-> 0, RxRateMbps |-> 0, TxRateMbps |-> 0,
   SignalNoiseRatio |-> 0]

\* The entry updateStationStatuses stores for a station whose interface reports ssid.
StatusFor(ssid, tree, position) ==
  IF HasNoTeamPrefix(ssid) THEN Nil ELSE Ptr(NewStatus(ssid, tree, position))

\* A comparison that skips the stations the request does not configure.
StationCorrect_assignedOnly(statuses, cfg, stationName) ==
  stationName \in DOMAIN cfg =>
    (statuses[stationName] # Nil /\ statuses[stationName][1].Ssid = cfg[stationName].Ssid)

\* stationSsidsAreCorrect of part_000: the verdict for one station name.
StationCorrectBase(statuses, cfg, stationName) ==
  IF stationName \in DOMAIN cfg
  THEN statuses[stationName] # Nil
       /\ statuses[stationName][1].Ssid = cfg[stationName].Ssid
  ELSE statuses[stationName] = Nil

stationSsidsAreCorrectBase(statuses, cfg) ==
  \A stationName \in DOMAIN statuses : StationCorrectBase(statuses, cfg, stationName)

\* stationSsidsAreCorrect of radio_ap.go: what visiting one station name does:
\* "next" (go on), "false" (return false) or "panic" (config is a nil pointer).
StationVerdictAp(statuses, cfg, stationName) ==
  IF stationName \in DOMAIN cfg
  THEN IF statuses[stationName] = Nil THEN "false"
       ELSE IF cfg[stationName] = Nil THEN "panic"
       ELSE IF statuses[stationName][1].Ssid # cfg[stationName][1].Ssid THEN "false"
       ELSE "next"
  ELSE IF statuses[stationName] # Nil THEN "false" ELSE "next"

\* The map is ranged over in any order: the first station that does not say
\* "next" decides, and any such station can be the first.
stationSsidsAreCorrectAp(statuses, cfg) ==
  LET stops == {StationVerdictAp(statuses, cfg, n) : n \in DOMAIN statuses} \ {"next"}
  IN  IF stops = {} THEN {"true"} ELSE stops

-----------------------------------------------------------------------------
(* Initial state: NewRadio has run, Run has not started. *)

\* No station has been polled.
NoProbe == [bandwidthOk |-> TRUE, assocOk |-> TRUE]

NewRadio ==
  /\ variant \in {"ap", "base"}
  /\ Type \in {"linksys", "vivid"}
  /\ Channel = 0
  /\ ChannelBandwidth = ""
  /\ RedVlans = IF variant = "ap" THEN Vlans102030 ELSE ""
  /\ BlueVlans = IF variant = "ap" THEN Vlans405060 ELSE ""
  /\ SyslogIpAddress = ""
  /\ Status = statusBooting
  /\ StationStatuses = [n \in StationNameSet |-> Nil]
  /\ ConfigurationRequestChannel = <<>>
  /\ uci = BaselineStore
  /\ disk = uci
  /\ dev = DeviceOf(disk)
  /\ pc = "isStarted"
  /\ request = NoRequest
  /\ numExtraRequests = 0
  /\ i = 0
  /\ stationConfigurations = NoStations
  /\ pass = "main"
  /\ retryCount = 1
  /\ todo = {}
  /\ caller = "Run"
  /\ nextId = 1
  /\ taken = [id |-> 0, k |-> 0]
  /\ step = 0
  /\ removedAt = [id \in 1 .. MaxRequests |-> 0]
  /\ discarded = {}
  /\ applied = <<>>
  /\ lastResult = "none"
  /\ inFlight = 0
  /\ polling = 0
  /\ polls = 0
  /\ refreshPre = [n \in StationNameSet |-> Nil]
  /\ faults = 0
  /\ probe = NoProbe

\* No call of getStationVlan is followed.
NoCall ==
  [station |-> 0, redVlans |-> "", blueVlans |-> "", done |-> FALSE, result |-> 0]

\* No run of the staging loop is followed.
NoStaging == [cfg |-> NoStations, done |-> FALSE]

Init ==
  /\ NewRadio
  /\ vlanCall = NoCall
  /\ stageCall = NoStaging

\* What no step of Run changes: the build, the hardware type, the followed call.
envV == <<variant, Type, vlanCall, stageCall>>
memV == <<Channel, ChannelBandwidth, RedVlans, BlueVlans, SyslogIpAddress>>
storeV == <<uci, disk>>
loopV == <<request, numExtraRequests, i>>
csV == <<stationConfigurations, pass, retryCount>>
handleH == <<taken, step, removedAt, discarded, applied>>
pollH == <<polling, polls>>

\* Whether a command or a commit succeeds: it can fail while the run's faults last.
Outcomes == IF faults < MaxFaults THEN {TRUE, FALSE} ELSE {TRUE}
Fault(ok) == faults' = IF ok THEN faults ELSE faults + 1

-----------------------------------------------------------------------------
(* Producers: a web handler sends a request on the channel. *)

Enqueue ==
  /\ nextId <= MaxRequests
  /\ Len(ConfigurationRequestChannel) < configurationRequestBufferSize
  /\ \E r \in RequestKinds(variant) :
        ConfigurationRequestChannel' =
          Append(ConfigurationRequestChannel, WithId(r, nextId))
  /\ nextId' = nextId + 1
  /\ UNCHANGED <<envV, probe, faults, memV, Status, StationStatuses, storeV, dev, pc, loopV, csV,
                 todo, caller, handleH, lastResult, inFlight, pollH, refreshPre>>

-----------------------------------------------------------------------------
(* Run: boot *)

\* isStarted: the readiness probe succeeds or fails; Run sleeps and probes again.
Run_isStarted ==
  /\ pc = "isStarted"
  /\ \E started \in BOOLEAN : pc' = IF started THEN "seed" ELSE "isStarted"
  /\ UNCHANGED <<envV, probe, faults, memV, Status, StationStatuses, ConfigurationRequestChannel,
                 storeV, dev, loopV, csV, todo, caller, nextId, handleH, lastResult,
                 inFlight, pollH, refreshPre>>

\* htmode as setInitialState reads it.
BandwidthOfHtmode(htmode) ==
  CASE htmode = "HT20" -> "20MHz"
    [] htmode = "HT40" -> "40MHz"
    [] OTHER -> "INVALID"

\* Run seeds the channel (setInitialState: and the bandwidth) and calls
\* updateStationStatuses.
Run_seed ==
  /\ pc = "seed"
  /\ Channel' = uci.channel
  /\ ChannelBandwidth' =
       IF variant = "ap" THEN BandwidthOfHtmode(uci.htmode) ELSE ChannelBandwidth
  /\ todo' = Stations
  /\ caller' = "Run"
  /\ refreshPre' = StationStatuses
  /\ pc' = "refresh"
  /\ UNCHANGED <<envV, probe, faults, RedVlans, BlueVlans, SyslogIpAddress, Status, StationStatuses,
                 ConfigurationRequestChannel, storeV, dev, loopV, csV, nextId, handleH,
                 lastResult, inFlight, pollH>>

\* The refresh's error is dropped; the syslog address is read (setInitialState);
\* the radio is ACTIVE.
Run_seeded ==
  /\ pc = "seeded"
  /\ SyslogIpAddress' = IF variant = "ap" THEN uci.log_ip ELSE SyslogIpAddress
  /\ Status' = statusActive
  /\ pc' = "select"
  /\ UNCHANGED <<envV, probe, faults, Channel, ChannelBandwidth, RedVlans, BlueVlans, StationStatuses,
                 ConfigurationRequestChannel, storeV, dev, loopV, csV, todo, caller,
                 nextId, handleH, lastResult, inFlight, pollH, refreshPre>>

-----------------------------------------------------------------------------
(* updateStationStatuses: one station per step *)

\* radio_ap.go counts red1..blue3; part_000 ranges over a map, in any order.
NextStations(remaining) ==
  IF variant = "ap" THEN {Min(remaining)} ELSE remaining

\* A configureStations that starts another apply cycle after a failed commit or
\* reload instead of returning the error.
ConfigureReturns_retry(result) ==
  IF result \in {"commit", "reload"}
  THEN pc' = "apply" /\ UNCHANGED <<lastResult, inFlight>>
  ELSE /\ pc' = "returned"
       /\ lastResult' = result
       /\ inFlight' = inFlight - 1

\* configure returns `result` to handleConfigurationRequest.
ConfigureReturns(result) ==
  /\ pc' = "returned"
  /\ lastResult' = result
  /\ inFlight' = inFlight - 1

\* updateStationStatuses returns; ok says whether it returns nil.
RefreshReturns(ok) ==
  IF caller = "Run"
  THEN pc' = "seeded" /\ UNCHANGED <<lastResult, inFlight>>
  ELSE IF ok
       THEN pc' = "check" /\ UNCHANGED <<lastResult, inFlight>>
       ELSE ConfigureReturns("refresh")

\* m[k] = v on a Go map: the key is added when the map does not hold it.
MapSet(m, k, v) == [n \in DOMAIN m \cup {k} |-> IF n = k THEN v ELSE m[n]]

\* A refresh that deletes the entry of an unassigned station instead of storing nil.
StoreStatus_delete(statuses, s) ==
  IF StatusFor(dev[s + 1], uci, s + 1) = Nil
  THEN [n \in DOMAIN statuses \ {String(s)} |-> statuses[n]]
  ELSE MapSet(statuses, String(s), StatusFor(dev[s + 1], uci, s + 1))

\* The write of one station's entry.
StoreStatus(statuses, s) ==
  MapSet(statuses, String(s), StatusFor(dev[s + 1], uci, s + 1))

updateStationStatuses ==
  /\ pc = "refresh"
  /\ \E s \in NextStations(todo), ok \in Outcomes :
        /\ Fault(ok)
        /\ IF ok
           THEN /\ StationStatuses' = StoreStatus(StationStatuses, s)
                /\ todo' = todo \ {s}
                /\ IF todo' = {}
                   THEN RefreshReturns(TRUE)
                   ELSE pc' = "refresh" /\ UNCHANGED <<lastResult, inFlight>>
           ELSE \* the command fails, or its output holds no ESSID
                /\ UNCHANGED <<StationStatuses, todo>>
                /\ RefreshReturns(FALSE)
  /\ UNCHANGED <<envV, probe, memV, Status, ConfigurationRequestChannel, storeV, dev, loopV,
                 csV, caller, nextId, handleH, pollH, refreshPre>>

-----------------------------------------------------------------------------
(* Run: the steady-state loop *)

\* A loop that selects without waiting for the radio to start.
SelectReady_unbooted == pc \in {"select", "isStarted"}

\* A select that also receives while a configure is running, as it would if
\* Run started the handler with a go statement.
SelectReady_spawned == pc = "select" \/ inFlight > 0

\* The loop is at its select only between two handlers: both are called, not spawned.
SelectReady == pc = "select"

\* case request := <-radio.ConfigurationRequestChannel
Run_receive ==
  /\ SelectReady
  /\ ConfigurationRequestChannel # <<>>
  /\ request' = Head(ConfigurationRequestChannel)
  /\ ConfigurationRequestChannel' = Tail(ConfigurationRequestChannel)
  /\ pc' = "len"
  /\ taken' = [id |-> Head(ConfigurationRequestChannel).id,
               k |-> Len(ConfigurationRequestChannel) - 1]
  /\ step' = step + 1
  /\ removedAt' = [removedAt EXCEPT ![Head(ConfigurationRequestChannel).id] = step + 1]
  /\ probe' = NoProbe
  /\ UNCHANGED <<envV, faults, memV, Status, StationStatuses, storeV, dev, numExtraRequests, i,
                 csV, todo, caller, nextId, discarded, applied, lastResult, inFlight,
                 pollH, refreshPre>>

\* case <-time.After(...): the timer fires only after the channel stayed empty.
Run_timer ==
  /\ SelectReady
  /\ ConfigurationRequestChannel = <<>>
  /\ polls < MaxPolls
  /\ pc' = "poll"
  /\ todo' = Stations
  /\ polling' = polling + 1
  /\ polls' = polls + 1
  /\ UNCHANGED <<envV, probe, faults, memV, Status, StationStatuses, ConfigurationRequestChannel,
                 storeV, dev, loopV, csV, caller, nextId, handleH, lastResult, inFlight,
                 refreshPre>>

-----------------------------------------------------------------------------
(* handleConfigurationRequest *)

\* A length that leaves the newest queued request behind.
ExtraRequests_short(queue) == IF Len(queue) > 0 THEN Len(queue) - 1 ELSE 0

\* A drain that keeps the request first received.
Drained_keep(held, received) == held

\* len(radio.ConfigurationRequestChannel): the requests the drain loop receives.
ExtraRequests(queue) == Len(queue)

\* request = <-radio.ConfigurationRequestChannel: the drained request replaces
\* the one held.
Drained(held, received) == received

\* numExtraRequests := len(radio.ConfigurationRequestChannel)
handleConfigurationRequest_len ==
  /\ pc = "len"
  /\ numExtraRequests' = ExtraRequests(ConfigurationRequestChannel)
  /\ i' = 0
  /\ pc' = "drain"
  /\ UNCHANGED <<envV, probe, faults, memV, Status, StationStatuses, ConfigurationRequestChannel,
                 storeV, dev, request, csV, todo, caller, nextId, handleH, lastResult,
                 inFlight, pollH, refreshPre>>

\* A handler that calls configure without touching radio.Status.
StatusBeforeConfigure_kept(status) == status

\* radio.Status as the handler sets it before it calls configure.
StatusBeforeConfigure(status) == statusConfiguring

\* One turn of the drain loop, or its exit and radio.Status = statusConfiguring.
handleConfigurationRequest_drain ==
  /\ pc = "drain"
  /\ IF i < numExtraRequests
     THEN /\ ConfigurationRequestChannel # <<>>
          /\ request' = Drained(request, Head(ConfigurationRequestChannel))
          /\ ConfigurationRequestChannel' = Tail(ConfigurationRequestChannel)
          /\ i' = i + 1
          /\ discarded' = discarded \cup
               ({request.id, Head(ConfigurationRequestChannel).id} \ {request'.id})
          /\ removedAt' =
               [removedAt EXCEPT ![Head(ConfigurationRequestChannel).id] = step]
          /\ UNCHANGED <<Status, pc>>
     ELSE /\ Status' = StatusBeforeConfigure(Status)
          /\ pc' = "configure"
          /\ UNCHANGED <<request, ConfigurationRequestChannel, i, discarded, removedAt>>
  /\ UNCHANGED <<envV, probe, faults, memV, StationStatuses, storeV, dev, numExtraRequests, csV, todo,
                 caller, nextId, taken, step, applied, lastResult, inFlight, pollH,
                 refreshPre>>

\* A handler whose error test is inverted.
StatusAfterConfigure_inverted(result, status, queueLen) ==
  IF result = "ok" THEN statusError
  ELSE IF queueLen = 0 THEN statusActive
  ELSE status

\* A handler that sets statusActive on success without reading the queue.
StatusAfterConfigure_always(result, status, queueLen) ==
  IF result # "ok" THEN statusError ELSE statusActive

\* radio.Status once configure has returned `result`, the queue holding queueLen requests.
StatusAfterConfigure(result, status, queueLen) ==
  IF result # "ok" THEN statusError
  ELSE IF queueLen = 0 THEN statusActive
  ELSE status

handleConfigurationRequest_returned ==
  /\ pc = "returned"
  /\ Status' = StatusAfterConfigure(lastResult, Status, Len(ConfigurationRequestChannel))
  /\ pc' = "select"
  /\ UNCHANGED <<envV, probe, faults, memV, StationStatuses, ConfigurationRequestChannel, storeV, dev,
                 loopV, csV, todo, caller, nextId, handleH, lastResult, inFlight, pollH,
                 refreshPre>>

-----------------------------------------------------------------------------
(* configure *)

\* A configure without the Linksys pre-pass.
StartStations_direct ==
  /\ stationConfigurations' = request.StationConfigurations
  /\ pass' = "main"
  /\ retryCount' = 1
  /\ pc' = "apply"
  /\ inFlight' = inFlight + 1
  /\ UNCHANGED lastResult

\* configure calls configureStations: the Linksys pre-pass first.
StartStations ==
  /\ stationConfigurations' =
       IF Type = "linksys" THEN NoStations ELSE request.StationConfigurations
  /\ pass' = IF Type = "linksys" THEN "clear" ELSE "main"
  /\ retryCount' = 1
  /\ pc' = "apply"
  /\ inFlight' = inFlight + 1
  /\ UNCHANGED lastResult

\* configure returns `result` before it calls configureStations.
ConfigureFails(result) ==
  /\ pc' = "returned"
  /\ lastResult' = result
  /\ UNCHANGED <<inFlight, csV>>

HtmodeOf(bandwidth) == IF bandwidth = "20MHz" THEN "HT20" ELSE "HT40"

\* configure of radio_ap.go, up to its first call of configureStations.
configure_ap ==
  /\ pc = "configure"
  /\ variant = "ap"
  /\ applied' = Append(applied, request.id)
  /\ LET r == request
         setChannel == r.Channel > 0
         tree1 == IF setChannel THEN [uci EXCEPT !.channel = r.Channel] ELSE uci
         channel1 == IF setChannel THEN r.Channel ELSE Channel
         setBandwidth == r.ChannelBandwidth # ""
         tree2 == IF setBandwidth
                  THEN [tree1 EXCEPT !.htmode = HtmodeOf(r.ChannelBandwidth)]
                  ELSE tree1
         bandwidth2 == IF setBandwidth THEN r.ChannelBandwidth ELSE ChannelBandwidth
         setVlans == r.RedVlans # "" /\ r.BlueVlans # ""
         redVlans1 == IF setVlans THEN r.RedVlans ELSE RedVlans
         blueVlans1 == IF setVlans THEN r.BlueVlans ELSE BlueVlans
         setSyslog == r.SyslogIpAddress # ""
         tree4 == IF setSyslog THEN [tree2 EXCEPT !.log_ip = r.SyslogIpAddress] ELSE tree2
     IN  IF setBandwidth /\ r.ChannelBandwidth \notin {"20MHz", "40MHz"}
         THEN \* invalid channel bandwidth
              /\ Channel' = channel1
              /\ uci' = tree1
              /\ UNCHANGED <<ChannelBandwidth, RedVlans, BlueVlans, SyslogIpAddress, disk>>
              /\ ConfigureFails("validation")
              /\ UNCHANGED faults
         ELSE /\ Channel' = channel1
              /\ ChannelBandwidth' = bandwidth2
              /\ RedVlans' = redVlans1
              /\ BlueVlans' = blueVlans1
              /\ uci' = tree4
              /\ IF setSyslog
                 THEN \E commitOk, restartOk \in Outcomes :
                        /\ Fault(commitOk /\ restartOk)
                        /\ IF ~commitOk
                           THEN /\ UNCHANGED <<SyslogIpAddress, disk>>
                                /\ ConfigureFails("syslog")
                           ELSE /\ disk' = tree4
                                /\ SyslogIpAddress' = r.SyslogIpAddress
                                /\ IF restartOk THEN StartStations
                                   ELSE ConfigureFails("syslog")
                 ELSE UNCHANGED <<SyslogIpAddress, disk, faults>> /\ StartStations
  /\ UNCHANGED <<envV, probe, Status, StationStatuses, ConfigurationRequestChannel, dev, loopV,
                 todo, caller, nextId, taken, step, removedAt, discarded, pollH,
                 refreshPre>>

\* configure of part_000, up to its first call of configureStations.
configure_base ==
  /\ pc = "configure"
  /\ variant = "base"
  /\ applied' = Append(applied, request.id)
  /\ IF request.Channel > 0
     THEN uci' = [uci EXCEPT !.channel = request.Channel] /\ Channel' = request.Channel
     ELSE UNCHANGED <<uci, Channel>>
  /\ StartStations
  /\ UNCHANGED <<envV, probe, faults, ChannelBandwidth, RedVlans, BlueVlans, SyslogIpAddress, Status,
                 StationStatuses, ConfigurationRequestChannel, disk, dev, loopV, todo,
                 caller, nextId, taken, step, removedAt, discarded, pollH, refreshPre>>

-----------------------------------------------------------------------------
(* configureStations *)

\* radio_ap.go: the station a name of the request converts to; a name of no
\* station leaves `var station station` at its zero value.
stationOf(stationName) ==
  IF \E s \in Stations : String(s) = stationName
  THEN CHOOSE s \in Stations : String(s) = stationName
  ELSE 0

\* radio_ap.go: the names of the request whose settings are written to station s.
Writers(cfg, s) ==
  {n \in DOMAIN cfg : cfg[n] # Nil /\ stationOf(n) = s}

\* radio_ap.go: the settings staged for station s from configuration config.
StagedEntryAp(s, config) ==
  [ssid |-> config.Ssid, key |-> config.WpaKey,
   network |-> getStationVlan(s, RedVlans, BlueVlans)]

\* radio_ap.go: the interface sections the staging loop can leave, stations s.. on
\* (the request is ranged over in any order: the last writer of a station wins).
RECURSIVE stageStationsAp(_, _, _)
stageStationsAp(ifaces, cfg, s) ==
  IF s >= stationCount THEN {ifaces}
  ELSE IF Writers(cfg, s) = {} THEN stageStationsAp(ifaces, cfg, s + 1)
  ELSE UNION {stageStationsAp(
                [ifaces EXCEPT ![s + 1] = StagedEntryAp(s, cfg[n][1])], cfg, s + 1)
              : n \in Writers(cfg, s)}

\* radio_ap.go: one apply cycle's staging of the request and its single commit.
configureStations_apply_ap ==
  /\ pc = "apply"
  /\ variant = "ap"
  /\ \E ifaces \in stageStationsAp(uci.iface, stationConfigurations, 0),
        commitOk \in Outcomes :
        /\ Fault(commitOk)
        /\ uci' = [uci EXCEPT !.iface = ifaces]
        /\ IF commitOk
           THEN disk' = uci' /\ pc' = "reload" /\ UNCHANGED <<lastResult, inFlight>>
           ELSE UNCHANGED disk /\ ConfigureReturns("commit")
  /\ UNCHANGED <<envV, probe, memV, Status, StationStatuses, ConfigurationRequestChannel, dev,
                 loopV, csV, todo, caller, nextId, handleH, pollH, refreshPre>>

\* part_000: the SSID and key staged for the station at stationIndex.
StagedEntryBase(old, cfg, stationIndex) ==
  IF String(stationIndex) \in DOMAIN cfg
  THEN [old EXCEPT !.ssid = cfg[String(stationIndex)].Ssid,
                   !.key = cfg[String(stationIndex)].WpaKey]
  ELSE [old EXCEPT !.ssid = NoTeamSsid(stationIndex + 1),
                   !.key = NoTeamSsid(stationIndex + 1)]

\* part_000: the tree once the stations before stationIndex are staged.
StagedBase(tree, cfg, stationIndex) ==
  [tree EXCEPT !.iface =
     [p \in 1 .. stationCount |->
        IF p - 1 < stationIndex THEN StagedEntryBase(tree.iface[p], cfg, p - 1)
        ELSE tree.iface[p]]]

\* part_000: one apply cycle's loop, which stages and commits station by station.
\* failAt = 0: every commit succeeds; failAt = n: the commit after station n fails.
configureStations_apply_base ==
  /\ pc = "apply"
  /\ variant = "base"
  /\ \E failAt \in IF faults < MaxFaults THEN 0 .. stationCount ELSE {0} :
        /\ Fault(failAt = 0)
        /\ IF failAt = 0
           THEN /\ uci' = StagedBase(uci, stationConfigurations, stationCount)
                /\ disk' = uci'
                /\ pc' = "reload"
                /\ UNCHANGED <<lastResult, inFlight>>
           ELSE /\ uci' = StagedBase(uci, stationConfigurations, failAt)
                /\ disk' = IF failAt = 1 THEN disk
                           ELSE StagedBase(uci, stationConfigurations, failAt - 1)
                /\ ConfigureReturns("commit")
  /\ UNCHANGED <<envV, probe, memV, Status, StationStatuses, ConfigurationRequestChannel, dev,
                 loopV, csV, todo, caller, nextId, handleH, pollH, refreshPre>>

\* `wifi reload`: the command fails, or it returns and the device has loaded the
\* committed configuration ("applied") or still reports what it did ("stale").
\* Then updateStationStatuses is called.
configureStations_reload ==
  /\ pc = "reload"
  /\ \E outcome \in {"applied", "stale"} \cup
                     (IF faults < MaxFaults THEN {"failed"} ELSE {}) :
        /\ Fault(outcome # "failed")
        /\ IF outcome = "failed"
           THEN /\ ConfigureReturns("reload")
                /\ UNCHANGED <<dev, todo, caller, refreshPre>>
           ELSE /\ dev' = IF outcome = "applied" THEN DeviceOf(disk) ELSE dev
                /\ todo' = Stations
                /\ caller' = "configureStations"
                /\ refreshPre' = StationStatuses
                /\ pc' = "refresh"
                /\ UNCHANGED <<lastResult, inFlight>>
  /\ UNCHANGED <<envV, probe, memV, Status, StationStatuses, ConfigurationRequestChannel,
                 storeV, loopV, csV, nextId, handleH, pollH>>

\* radio_ap.go: `if retryCount >= maxRetryCount`.
RetriesExhausted(count) == count >= maxRetryCount

\* The verdicts stationSsidsAreCorrect can give in this state.
Verdicts ==
  IF variant = "ap"
  THEN stationSsidsAreCorrectAp(StationStatuses, stationConfigurations)
  ELSE IF stationSsidsAreCorrectBase(StationStatuses, stationConfigurations)
       THEN {"true"} ELSE {"false"}

\* The end of an apply cycle: the comparison, and the return or the next cycle.
configureStations_check ==
  /\ pc = "check"
  /\ \E verdict \in Verdicts :
        CASE verdict = "panic" ->
               \* nil pointer dereference: the process dies
               /\ pc' = "panic"
               /\ UNCHANGED <<csV, lastResult, inFlight>>
          [] verdict = "true" ->
               IF pass = "clear"
               THEN \* configure calls configureStations with the request's stations
                    /\ pass' = "main"
                    /\ stationConfigurations' = request.StationConfigurations
                    /\ retryCount' = 1
                    /\ pc' = "apply"
                    /\ UNCHANGED <<lastResult, inFlight>>
               ELSE ConfigureReturns("ok") /\ UNCHANGED csV
          [] verdict = "false" ->
               IF variant = "ap" /\ RetriesExhausted(retryCount)
               THEN ConfigureReturns("convergence") /\ UNCHANGED csV
               ELSE /\ retryCount' = IF retryCount < MaxCycles THEN retryCount + 1
                                     ELSE retryCount
                    /\ pc' = "apply"
                    /\ UNCHANGED <<stationConfigurations, pass, lastResult, inFlight>>
  /\ UNCHANGED <<envV, probe, faults, memV, Status, StationStatuses, ConfigurationRequestChannel,
                 storeV, dev, loopV, todo, caller, nextId, handleH, pollH, refreshPre>>

-----------------------------------------------------------------------------
(* updateStationMonitoring / updateMonitoring: one station per step *)

\* stationStatus.parseBandwidthUsed(output) and stationStatus.parseAssocList(output)
\* are not in src/: each stores the fields of its own metric group, read from
\* the command's output (spec 4.6).
parseBandwidthUsed(status) == [status EXCEPT !.BandwidthUsedMbps = 12]
parseAssocList(status) ==
  [status EXCEPT !.RxRateMbps = 130, !.TxRateMbps = 65, !.SignalNoiseRatio = 40]

\* A poll that stores a status built anew, its hashed key left empty.
Monitored_fresh(status, bandwidthOk, assocOk) ==
  [Ssid |-> status.Ssid, HashedWpaKey |-> Hash(<<"", "">>),
   BandwidthUsedMbps |-> IF bandwidthOk THEN 12 ELSE monitoringErrorCode,
   RxRateMbps |-> IF assocOk THEN 130 ELSE monitoringErrorCode,
   TxRateMbps |-> IF assocOk THEN 65 ELSE monitoringErrorCode,
   SignalNoiseRatio |-> IF assocOk THEN 40 ELSE monitoringErrorCode]

\* A poll that skips the link-quality command after a bandwidth failure.
Monitored_abort(status, bandwidthOk, assocOk) ==
  IF ~bandwidthOk
  THEN [status EXCEPT !.BandwidthUsedMbps = monitoringErrorCode]
  ELSE IF assocOk THEN parseAssocList(parseBandwidthUsed(status))
  ELSE [parseBandwidthUsed(status) EXCEPT
          !.RxRateMbps = monitoringErrorCode, !.TxRateMbps = monitoringErrorCode,
          !.SignalNoiseRatio = monitoringErrorCode]

\* The status of a station after the two commands of a poll.
Monitored(status, bandwidthOk, assocOk) ==
  LET afterBandwidth ==
        IF bandwidthOk THEN parseBandwidthUsed(status)
        ELSE [status EXCEPT !.BandwidthUsedMbps = monitoringErrorCode]
  IN  IF assocOk THEN parseAssocList(afterBandwidth)
      ELSE [afterBandwidth EXCEPT
              !.RxRateMbps = monitoringErrorCode, !.TxRateMbps = monitoringErrorCode,
              !.SignalNoiseRatio = monitoringErrorCode]

updateStationMonitoring ==
  /\ pc = "poll"
  /\ \E s \in {Min(todo)} :
        /\ todo' = todo \ {s}
        /\ IF StationStatuses[String(s)] = Nil
           THEN UNCHANGED <<StationStatuses, probe>>
           ELSE \E bandwidthOk, assocOk \in BOOLEAN :
                  /\ probe' = [bandwidthOk |-> bandwidthOk, assocOk |-> assocOk]
                  /\ StationStatuses' =
                       [StationStatuses EXCEPT ![String(s)] =
                          Ptr(Monitored(StationStatuses[String(s)][1], bandwidthOk, assocOk))]
        /\ IF todo' = {}
           THEN pc' = "select" /\ polling' = polling - 1
           ELSE UNCHANGED <<pc, polling>>
  /\ UNCHANGED <<envV, faults, memV, Status, ConfigurationRequestChannel, storeV, dev, loopV,
                 csV, caller, nextId, handleH, lastResult, inFlight, polls, refreshPre>>

-----------------------------------------------------------------------------
(* Specifications *)

Controller ==
  \/ Run_isStarted
  \/ Run_seed
  \/ Run_seeded
  \/ updateStationStatuses
  \/ Run_receive
  \/ Run_timer
  \/ handleConfigurationRequest_len
  \/ handleConfigurationRequest_drain
  \/ handleConfigurationRequest_returned
  \/ configure_ap
  \/ configure_base
  \/ configureStations_apply_ap
  \/ configureStations_apply_base
  \/ configureStations_reload
  \/ configureStations_check
  \/ updateStationMonitoring

Next == Enqueue \/ Controller

Spec == Init /\ [][Next]_vars

\* The controller goroutine is scheduled whenever it can run.
FairSpec == Spec /\ WF_vars(Controller)

\* The build of src/unnamed/part_000 alone, on the Vivid Hosting hardware (where
\* configure calls configureStations once), its controller scheduled whenever it
\* can run. Its behaviours are behaviours of FairSpec.
BaseInit ==
  /\ Init
  /\ variant = "base"
  /\ Type = "vivid"

BaseController ==
  \/ Run_isStarted
  \/ Run_seed
  \/ Run_seeded
  \/ updateStationStatuses
  \/ Run_receive
  \/ Run_timer
  \/ handleConfigurationRequest_len
  \/ handleConfigurationRequest_drain
  \/ handleConfigurationRequest_returned
  \/ configure_base
  \/ configureStations_apply_base
  \/ configureStations_reload
  \/ configureStations_check
  \/ updateStationMonitoring

BaseNext == Enqueue \/ BaseController

BaseFairSpec == BaseInit /\ [][BaseNext]_vars /\ WF_vars(BaseController)

\* getStationVlan alone: a radio whose RedVlans and BlueVlans hold any group
\* string a request can carry (configure stores them unvalidated), called with
\* any station number around the six.
VlanGroups == {Vlans102030, Vlans405060, Vlans708090, "", "80_90_100"}
StationInputs == -1 .. stationCount

VlanInit ==
  /\ NewRadio
  /\ variant = "ap"
  /\ vlanCall \in [station : StationInputs, redVlans : VlanGroups, blueVlans : VlanGroups,
                    done : {FALSE}, result : {0}]
  /\ stageCall = NoStaging

getStationVlan_call ==
  /\ ~vlanCall.done
  /\ vlanCall' =
       [vlanCall EXCEPT
          !.done = TRUE,
          !.result = getStationVlan(vlanCall.station, vlanCall.redVlans, vlanCall.blueVlans)]
  /\ UNCHANGED <<variant, Type, stageCall, memV, Status, StationStatuses,
                 ConfigurationRequestChannel, storeV, dev, pc, loopV, csV, todo, caller, nextId,
                 handleH, lastResult, inFlight, pollH, refreshPre, faults, probe>>

VlanNext == getStationVlan_call
VlanSpec == VlanInit /\ [][VlanNext]_vars

\* The staging loop of radio_ap.go's configureStations alone: a radio as NewRadio
\* leaves it, the loop run once over a map whose keys are any strings (the map
\* type is map[string]*StationConfiguration and the loop tests no key) and whose
\* values are nil or a configuration.
StageNames == {"red1", "blue3", "red4", "RED1"}
StageInputs ==
  UNION {[names -> {Nil, Ptr(Team1), Ptr(Team2)}] : names \in SUBSET StageNames}

StageInit ==
  /\ NewRadio
  /\ variant = "ap"
  /\ vlanCall = NoCall
  /\ stageCall \in [cfg : StageInputs, done : {FALSE}]

configureStations_stage ==
  /\ ~stageCall.done
  /\ \E ifaces \in stageStationsAp(uci.iface, stageCall.cfg, 0) :
        uci' = [uci EXCEPT !.iface = ifaces]
  /\ stageCall' = [stageCall EXCEPT !.done = TRUE]
  /\ UNCHANGED <<variant, Type, vlanCall, memV, Status, StationStatuses,
                 ConfigurationRequestChannel, disk, dev, pc, loopV, csV, todo, caller, nextId,
                 handleH, lastResult, inFlight, pollH, refreshPre, faults, probe>>

StageNext == configureStations_stage
StageSpec == StageInit /\ [][StageNext]_vars

-----------------------------------------------------------------------------
(* Properties *)

Last(seq) == seq[Len(seq)]
Max(S) == CHOOSE x \in S : \A y \in S : x >= y

\* The current handling step has called configure.
CallMade == step > 0 /\ pc \notin {"len", "drain", "configure"}

\* The requests the current handling step removed from the queue.
RemovedNow == {id \in 1 .. MaxRequests : removedAt[id] = step}

\* The calls of configure the current handling step made.
CallsNow == {j \in DOMAIN applied : removedAt[applied[j]] = step}

\* The requests that were in the queue when Run's select received one.
Burst == taken.id .. (taken.id + taken.k)

\* C1 (as stated): once a handling step has called configure, it has called it
\* exactly once, with the most recently enqueued of the k+1 requests that were
\* queued when the controller took the first; the other k were removed and are
\* never passed to configure.
C1_Original ==
  CallMade =>
    /\ Cardinality(CallsNow) = 1
    /\ Last(applied) = taken.id + taken.k
    /\ \A id \in Burst \ {Last(applied)} :
         removedAt[id] = step /\ id \notin Range(applied)

\* C1 (amended): once a handling step has called configure, it has called it
\* exactly once, with the most recently enqueued of the requests the step removed
\* from the queue; these are the k+1 queued at the take and any enqueued before
\* the handler read the queue length; all but the argument are discarded and no
\* discarded request is ever passed to configure.
C1_Coalescing ==
  /\ discarded \cap Range(applied) = {}
  /\ CallMade =>
       /\ Cardinality(CallsNow) = 1
       /\ Burst \subseteq RemovedNow
       /\ Last(applied) = Max(RemovedNow)
       /\ RemovedNow \ {Last(applied)} \subseteq discarded

\* Three requests were queued when the controller took the first: the third is
\* applied, the first two are discarded.
C1_Witness ==
  /\ CallMade
  /\ taken.k = 2
  /\ Last(applied) = taken.id + 2
  /\ discarded = {taken.id, taken.id + 1}

\* The handler has finished a request: configure has returned and the status is set.
Finished == pc \in {"select", "poll"} /\ lastResult # "none"

\* C2 (as stated): after the controller finishes handling a request, RadioStatus
\* is ACTIVE if configure returned success and ERROR if it returned an error.
C2_Original ==
  Finished => Status = IF lastResult = "ok" THEN statusActive ELSE statusError

\* C2 (amended): the step that finishes handling a request sets RadioStatus to
\* ERROR if configure returned an error, to ACTIVE if it returned success and the
\* queue is empty then, and leaves it CONFIGURING if it returned success and a
\* request is queued then.
C2_StatusAfterHandling ==
  [][(pc = "returned" /\ pc' = "select") =>
       Status' = IF lastResult # "ok" THEN statusError
                 ELSE IF ConfigurationRequestChannel = <<>> THEN statusActive
                 ELSE statusConfiguring]_vars

\* configure succeeded while a further request was enqueued: the handler has
\* finished and RadioStatus is CONFIGURING.
C2_Witness ==
  /\ pc = "select"
  /\ lastResult = "ok"
  /\ ConfigurationRequestChannel # <<>>
  /\ Status = statusConfiguring

\* The SSID a configuration map requests for a station name.
RequestedSsid(cfg, n) == IF variant = "ap" THEN cfg[n][1].Ssid ELSE cfg[n].Ssid

\* A configuration map holds a configuration (not the unassign marker) for n.
HoldsConfiguration(cfg, n) == n \in DOMAIN cfg /\ cfg[n] # Nil

\* The observed state is the desired one (spec 4.4, step 6).
Converged(statuses, cfg) ==
  \A n \in StationNameSet :
    IF HoldsConfiguration(cfg, n)
    THEN statuses[n] # Nil /\ statuses[n][1].Ssid = RequestedSsid(cfg, n)
    ELSE statuses[n] = Nil

\* configureStations is running.
InConfigureStations ==
  pc \in {"apply", "reload", "check"} \/ (pc = "refresh" /\ caller = "configureStations")

\* C3 (as stated): configureStations runs at most 3 apply cycles (retryCount is
\* the number of the running cycle); a further cycle starts only while the
\* observed state differs from the desired one; success is returned only with
\* the desired state observed; the convergence failure is returned after exactly
\* 3 cycles.
C3_Original ==
  /\ InConfigureStations => retryCount <= maxRetryCount
  /\ (pc = "apply" /\ retryCount > 1) => ~Converged(StationStatuses, stationConfigurations)
  /\ (pc = "returned" /\ lastResult = "ok") =>
       Converged(StationStatuses, stationConfigurations)
  /\ (pc = "returned" /\ lastResult = "convergence") => retryCount = maxRetryCount

\* The same, of radio_ap.go's configureStations alone.
BoundedRetryAp == variant = "ap" => C3_Original

\* C4 (as stated): every request-handling step eventually finishes, the
\* controller being back at its select. The death of the process (the nil
\* dereference of radio_ap.go's stationSsidsAreCorrect) is counted here as an
\* end of the step, so that only a step that runs for ever refutes the formula.
C4_Original ==
  (pc \in {"len", "drain", "configure", "apply", "reload", "check", "returned"})
    ~> (pc \in {"select", "panic"})

\* C5: when configure returns success for a request, each of the six stations
\* has a non-nil status with the requested SSID if the request holds a
\* configuration for it, and a nil status otherwise.
C5_SuccessPostcondition ==
  (pc = "returned" /\ lastResult = "ok") =>
    \A s \in Stations :
      IF HoldsConfiguration(request.StationConfigurations, String(s))
      THEN /\ StationStatuses[String(s)] # Nil
           /\ StationStatuses[String(s)][1].Ssid =
                RequestedSsid(request.StationConfigurations, String(s))
      ELSE StationStatuses[String(s)] = Nil

\* configure returned success for a request that assigns red1 and blue3 after
\* at least one retry.
C5_Witness ==
  /\ pc = "returned"
  /\ lastResult = "ok"
  /\ DOMAIN request.StationConfigurations = {"red1", "blue3"}
  /\ StationStatuses["red1"] # Nil
  /\ StationStatuses["red2"] = Nil
  /\ retryCount > 1

\* The station map a status refresh leaves when no command fails.
Refreshed == [n \in StationNameSet |->
                LET s == stationOf(n) IN StatusFor(dev[s + 1], uci, s + 1)]

\* C6 (as stated): while a status refresh runs, the station map a reader can
\* read is the one from before the refresh or the one from after it.
C6_Original ==
  pc = "refresh" => StationStatuses \in {refreshPre, Refreshed}

\* C7 (as stated): when updateStationStatuses returns an error to
\* configureStations, StationStatuses is what it was before the call.
C7_Original ==
  (pc = "returned" /\ lastResult = "refresh") => StationStatuses = refreshPre

\* C8 (as stated): configure of a request whose channel bandwidth is neither
\* "20MHz", "40MHz" nor unspecified returns an error and leaves the store (staged
\* and committed) and Channel, ChannelBandwidth, RedVlans, BlueVlans and
\* SyslogIpAddress as they were.
C8_Original ==
  [][(/\ pc = "configure"
      /\ pc' # "configure"
      /\ request.ChannelBandwidth \notin {"", "20MHz", "40MHz"}) =>
       (/\ lastResult' = "validation"
        /\ UNCHANGED <<uci, disk, Channel, ChannelBandwidth, RedVlans, BlueVlans,
                       SyslogIpAddress>>)]_vars

\* C9: at most one execution of configure or of the telemetry poll is in flight,
\* and none is while the controller takes requests from the queue: a request
\* enqueued while configure runs is received only once configure has returned.
C9_OneInFlight ==
  /\ inFlight + polling <= 1
  /\ pc \in {"len", "drain", "configure"} => inFlight + polling = 0
  /\ inFlight = 1 <=> (InConfigureStations \/ pc = "panic")
  /\ polling = 1 <=> pc = "poll"

\* A request was enqueued while configure was running and waits in the queue.
C9_Witness ==
  /\ inFlight = 1
  /\ pc = "check"
  /\ ConfigurationRequestChannel # <<>>
  /\ Head(ConfigurationRequestChannel).id > request.id

\* C10: the requests passed to configure are in strictly increasing enqueue
\* order; a discarded request has a later-enqueued request applied in the same
\* handling step (once that step has called configure); the request enqueued
\* last is never discarded.
C10_AppliedOrder ==
  /\ \A j, k \in DOMAIN applied : j < k => applied[j] < applied[k]
  /\ \A id \in discarded :
       /\ id < nextId - 1
       /\ (CallMade \/ removedAt[id] < step) =>
            \E j \in DOMAIN applied :
              applied[j] > id /\ removedAt[applied[j]] = removedAt[id]

\* Request 1 was applied alone; request 2 was discarded for request 3.
C10_Witness ==
  /\ applied = <<1, 3>>
  /\ discarded = {2}

\* C11: StationStatuses holds exactly the six keys red1, red2, red3, blue1, blue2,
\* blue3 in every reachable state.
C11_SixKeys ==
  DOMAIN StationStatuses = {"red1", "red2", "red3", "blue1", "blue2", "blue3"}

\* A telemetry poll runs after a failed reconciliation, red1 holding a status
\* stored by an earlier refresh.
C11_Witness ==
  /\ pc = "poll"
  /\ lastResult \notin {"none", "ok"}
  /\ StationStatuses["red1"] # Nil

\* C12: RadioStatus is ERROR only when the most recently completed configure
\* returned an error, the controller being between that return and the end of
\* the next drain loop; during boot no state has RadioStatus ERROR.
C12_ErrorOnlyAfterFailure ==
  Status = statusError =>
    /\ lastResult \notin {"none", "ok"}
    /\ pc \in {"select", "poll", "len", "drain"}

\* RadioStatus is ERROR after retries were exhausted, and a telemetry poll runs.
C12_Witness ==
  /\ Status = statusError
  /\ lastResult = "convergence"
  /\ pc = "poll"

\* The reference VLAN number: 10 * (position + offset), position 1, 2, 3 within
\* the alliance, offset 0, 3, 6 by group; -1 for any other group or station.
VlanOffset(group) ==
  CASE group = "10_20_30" -> 0
    [] group = "40_50_60" -> 3
    [] group = "70_80_90" -> 6
    [] OTHER -> -1
VlanReference(station, redVlans, blueVlans) ==
  LET group == IF station \in 0 .. 2 THEN redVlans ELSE blueVlans
  IN  IF station \in 0 .. 5 /\ VlanOffset(group) >= 0
      THEN 10 * ((station % 3) + 1 + VlanOffset(group))
      ELSE -1

\* C13: getStationVlan returns the reference VLAN number for every station and
\* every group, and -1 for any other group or a station outside the six.
C13_VlanIsReference ==
  vlanCall.done =>
    vlanCall.result =
      VlanReference(vlanCall.station, vlanCall.redVlans, vlanCall.blueVlans)

\* The call for blue3 on a radio whose blue alliance uses "70_80_90" returned 90.
C13_Witness ==
  /\ vlanCall.done
  /\ vlanCall.station = blue3
  /\ vlanCall.blueVlans = Vlans708090
  /\ vlanCall.result = 90

\* The station the running poll visits next.
Polled == String(Min(todo))

\* C14: a poll step of a station with a status stores -999 in BandwidthUsedMbps
\* when the bandwidth command fails and in RxRateMbps, TxRateMbps and
\* SignalNoiseRatio when the link-quality command fails; each group depends on
\* its own command's outcome only, and the poll goes on to the next station.
C14_IndependentGroups ==
  [][(pc = "poll" /\ todo' # todo /\ StationStatuses[Polled] # Nil) =>
       LET before == StationStatuses[Polled][1]
           after == StationStatuses'[Polled][1]
           link(st) == <<st.RxRateMbps, st.TxRateMbps, st.SignalNoiseRatio>>
           failed == <<monitoringErrorCode, monitoringErrorCode, monitoringErrorCode>>
       IN  /\ after.BandwidthUsedMbps =
                IF probe'.bandwidthOk THEN parseBandwidthUsed(before).BandwidthUsedMbps
                ELSE monitoringErrorCode
           /\ link(after) = IF probe'.assocOk THEN link(parseAssocList(before)) ELSE failed
           /\ after.Ssid = before.Ssid
           /\ todo' = todo \ {Min(todo)}
           /\ pc' = IF todo' = {} THEN "select" ELSE "poll"]_vars

\* A poll in which red1's bandwidth command failed and its link-quality command
\* succeeded goes on with the other stations.
C14_Witness ==
  /\ pc = "poll"
  /\ todo # {}
  /\ ~probe.bandwidthOk
  /\ probe.assocOk
  /\ StationStatuses["red1"] # Nil
  /\ StationStatuses["red1"][1].BandwidthUsedMbps = monitoringErrorCode
  /\ StationStatuses["red1"][1].RxRateMbps # monitoringErrorCode

\* C15 (as stated): once an apply cycle has committed, the store holds, for each
\* of the six stations, the requested SSID and key if the configuration map
\* holds a configuration for it and a "no-team-" placeholder otherwise.
C15_Original ==
  pc = "reload" =>
    \A s \in Stations :
      IF HoldsConfiguration(stationConfigurations, String(s))
      THEN disk.iface[s + 1].ssid = RequestedSsid(stationConfigurations, String(s))
      ELSE HasNoTeamPrefix(disk.iface[s + 1].ssid)

\* C17 (as stated): the convergence check of radio_ap.go returns true exactly
\* when every station with a configuration shows the requested SSID and every
\* other station, the ones carrying the unassign marker included, has a nil status.
C17_Original ==
  (variant = "ap" /\ pc = "check") =>
    (Verdicts = {"true"} <=> Converged(StationStatuses, stationConfigurations))

\* All six stations are observed unassigned.
AllUnassigned == \A n \in StationNameSet : StationStatuses[n] = Nil

\* The pre-pass of configure (configureStations with the empty map) is running.
InFirstPass == pass = "clear" /\ pc \in {"apply", "reload", "refresh", "check"}

\* A step changes an interface section of the store to a placeholder only.
PlaceholdersOnly ==
  \A p \in 1 .. stationCount :
    (uci'.iface[p] = uci.iface[p]) \/ HasNoTeamPrefix(uci'.iface[p].ssid)

\* The step from the successful end of the pre-pass to the pass over the request.
SecondPassStarts ==
  /\ pc = "check"
  /\ AllUnassigned
  /\ pc' = "apply"
  /\ stationConfigurations' = request.StationConfigurations

C18_Original ==
  [][(pc = "apply" /\ pc' = "returned" /\ lastResult' = "commit")
       => disk'.iface = disk.iface]_vars

\* C19: a step of configureStations in which the commit or the reload command
\* fails returns the error at once (no further cycle, whatever retryCount is),
\* and the handler then sets RadioStatus to ERROR and is back at the select.
C19_HardFailureReturns ==
  [][/\ ((pc \in {"apply", "reload"} /\ faults' # faults) =>
            /\ pc' = "returned"
            /\ lastResult' = (IF pc = "apply" THEN "commit" ELSE "reload")
            /\ inFlight' = 0
            /\ dev' = dev)
     /\ ((pc = "returned" /\ pc' # pc /\ lastResult \in {"commit", "reload"}) =>
            (Status' = statusError /\ pc' = "select"))]_vars

\* The reload command failed in the second apply cycle: RadioStatus is ERROR.
C19_Witness ==
  /\ pc = "select"
  /\ lastResult = "reload"
  /\ retryCount = 2
  /\ Status = statusError

\* C20: while RadioStatus is BOOTING no request has been taken from the queue
\* (every request enqueued is still queued) and no telemetry poll has run;
\* RadioStatus is BOOTING as long as the readiness probe has not succeeded; once
\* it is not BOOTING it never is again.
C20_BootGating ==
  /\ [](Status = statusBooting =>
          /\ pc \in {"isStarted", "seed", "refresh", "seeded"}
          /\ step = 0
          /\ applied = <<>>
          /\ polls = 0
          /\ Len(ConfigurationRequestChannel) = nextId - 1)
  /\ [](pc = "isStarted" => Status = statusBooting)
  /\ [][Status # statusBooting => Status' # statusBooting]_vars

\* Two requests were enqueued during boot and wait in the queue.
C20_Witness ==
  /\ pc = "isStarted"
  /\ Status = statusBooting
  /\ Len(ConfigurationRequestChannel) = 2

\* A step of the telemetry poll: the timer case of the select, or one station.
PollStep ==
  \/ pc = "select" /\ pc' = "poll"
  \/ pc = "poll" /\ todo' # todo

\* What a step leaves of the station named n: nil stays nil, a status keeps its
\* SSID and its hashed key.
StationKept(n) ==
  IF StationStatuses[n] = Nil THEN StationStatuses'[n] = Nil
  ELSE /\ StationStatuses'[n] # Nil
       /\ StationStatuses'[n][1].Ssid = StationStatuses[n][1].Ssid
       /\ StationStatuses'[n][1].HashedWpaKey = StationStatuses[n][1].HashedWpaKey

\* C21: a step of the timer-triggered poll leaves RadioStatus, Channel, the
\* request queue, the store and the device as they are, keeps the six keys of
\* StationStatuses, each station's nil/non-nil state and each status's SSID and
\* hashed key, whatever the outcome of the two commands.
C21_PollFrame ==
  [][PollStep =>
       /\ Status' = Status
       /\ Channel' = Channel
       /\ ConfigurationRequestChannel' = ConfigurationRequestChannel
       /\ uci' = uci /\ disk' = disk /\ dev' = dev
       /\ DOMAIN StationStatuses' = DOMAIN StationStatuses
       /\ \A n \in DOMAIN StationStatuses : StationKept(n)]_vars

\* A poll ended while RadioStatus was ERROR, after both commands of red1 failed.
C21_Witness ==
  /\ pc = "select"
  /\ polls = 1
  /\ Status = statusError
  /\ StationStatuses["red1"] # Nil
  /\ StationStatuses["red1"][1].BandwidthUsedMbps = monitoringErrorCode
  /\ StationStatuses["red1"][1].RxRateMbps = monitoringErrorCode
  /\ StationStatuses["red1"][1].HashedWpaKey = Hash(TeamKey("1111"))

\* A configure call is executing: it is about to start, or it is staging and
\* committing, reloading, re-reading the statuses for the comparison, or comparing.
ConfigureExecuting ==
  \/ pc \in {"configure", "apply", "reload", "check"}
  \/ pc = "refresh" /\ caller = "configureStations"

\* C22: while a configure call is executing, and until the handler has read its
\* result, radio.Status is CONFIGURING; the steps taken meanwhile leave it so.
C22_ConfiguringWhileExecuting ==
  /\ []((ConfigureExecuting \/ inFlight > 0 \/ pc = "returned") =>
          Status = statusConfiguring)
  /\ [][ConfigureExecuting => Status' = Status]_vars

\* The second apply cycle of a request is re-reading the statuses after a status
\* other than CONFIGURING was shown for an earlier request.
C22_Witness ==
  /\ pc = "refresh"
  /\ caller = "configureStations"
  /\ retryCount = 2
  /\ todo # Stations
  /\ step = 2
  /\ Status = statusConfiguring

\* C23 (as stated): the staging loop of radio_ap.go's configureStations leaves
\* the store section of every station for which the map holds no configuration
\* under that station's name as it was; an entry under any other name writes to
\* no station's section.
C23_Original ==
  [][(~stageCall.done /\ stageCall'.done) =>
       \A s \in Stations :
         ~HoldsConfiguration(stageCall.cfg, String(s)) =>
           uci'.iface[s + 1] = uci.iface[s + 1]]_vars

====
